---- MODULE Spec2Model ----
(***************************************************************************)
(* Fuel-station back office: tank inventory, readings, purchases, credit   *)
(* ledger, prices and the daily validation, modelled from the route        *)
(* handlers.  The persistent store is the set of table variables; every    *)
(* HTTP request is run by a process p whose position is pc[p] and whose    *)
(* handler-local constants (values read from the store earlier in the      *)
(* request) are loc[p].  A handler yields at each database round trip, so   *)
(* requests of different processes interleave between those steps.         *)
(***************************************************************************)
EXTENDS Integers, Sequences, FiniteSets, TLC

VARIABLES tanks, readings, purchases, prices, clients, credits, sales,
          cashReceipts, onlinePayments, validationData, pc, loc, requests

store == <<tanks, readings, purchases, prices, clients, credits, sales,
           cashReceipts, onlinePayments>>
vars == <<tanks, readings, purchases, prices, clients, credits, sales,
          cashReceipts, onlinePayments, validationData, pc, loc, requests>>

(***************************************************************************)
(* Bounds of the model.                                                    *)
(***************************************************************************)
MaxLitres == 2
MaxPurchases == 2
MaxBulk == 2
MaxSales == 1
MaxRequests == 3
MaxSeqRequests == 5
CapacityLit == 3
MaxLevel == 4
CreditLimit == 2000
MaxCredits == 2
MaxReceipts == 1
MaxPayments == 1
MaxCreditRequests == 5
MaxPriceRequests == 3
MaxPriceSeqRequests == 3
MaxPurchaseRequests == 5
MaxCapacityRequests == 3
MaxUpdates == 2
MaxGrossRequests == 3
MaxNoTankRequests == 3

(***************************************************************************)
(* Program constants.                                                      *)
(***************************************************************************)
MAX_READINGS_PER_REQUEST == 50
\* Money is counted in thousandths of a rupee, so that the 0.01 of
\* Math.abs(difference) < 0.01 is 10 units.
Tolerance == 10

Procs == {1, 2}
FuelTypes == {1, 2}
TankIds == {1}
PumpIds == {1}
Dates == {1, 2}
Litres == 0 .. MaxLitres
Openings == {0, 1}
UnitCosts == {1, 2}
PriceInputs == {1000}
ClientIds == {1}

NoReading == [none |-> TRUE]
\* closingLitres - openingLitres of a stored row; -1 when there is no row.
soldOf(row) == IF row = NoReading THEN 0 - 1 ELSE row.closingLitres - row.openingLitres
NoTank == 0

\* Pump rows: static reference data, every pump dispenses one fuel type.
\* Pump 1 is a petrol pump and pump 2 a diesel pump; the store holds a petrol
\* tank and no active diesel tank.
pumps == [i \in PumpIds \cup {2} |-> [fuelTypeId |-> i]]

(***************************************************************************)
(* Decimal arithmetic: avgUnitCost is kept as an exact fraction <<n, d>>.  *)
(***************************************************************************)
RECURSIVE GCD(_, _)
GCD(a, b) == IF b = 0 THEN a ELSE GCD(b, a % b)

Norm(n, d) == IF n = 0 THEN <<0, 1>> ELSE <<n \div GCD(n, d), d \div GCD(n, d)>>

\* (avgUnitCost * currentLevel + unitCost * litres) / (currentLevel + litres)
weightedAvg(avg, level, unitCost, litres) ==
    Norm(avg[1] * level + unitCost * litres * avg[2], avg[2] * (level + litres))

(***************************************************************************)
(* Tank Inventory Guard (TankValidator).                                   *)
(***************************************************************************)
\* validateSale refusing a sale that would empty the tank.
validateSaleStrict(tankId, litresToSell) ==
    IF tankId \notin DOMAIN tanks
    THEN [isValid |-> FALSE, error |-> "NotFound"]
    ELSE IF litresToSell <= 0
    THEN [isValid |-> FALSE, error |-> "InvalidInput"]
    ELSE IF tanks[tankId].currentLevel <= litresToSell
    THEN [isValid |-> FALSE, error |-> "InsufficientStock"]
    ELSE [isValid |-> TRUE, error |-> "none"]

validateSale(tankId, litresToSell) ==
    IF tankId \notin DOMAIN tanks
    THEN [isValid |-> FALSE, error |-> "NotFound"]
    ELSE IF litresToSell <= 0
    THEN [isValid |-> FALSE, error |-> "InvalidInput"]
    ELSE IF tanks[tankId].currentLevel < litresToSell
    THEN [isValid |-> FALSE, error |-> "InsufficientStock"]
    ELSE [isValid |-> TRUE, error |-> "none"]

validatePurchaseNoCheck(tankId, litresToUnload) ==
    IF tankId \notin DOMAIN tanks
    THEN [isValid |-> FALSE, error |-> "NotFound"]
    ELSE IF litresToUnload <= 0
    THEN [isValid |-> FALSE, error |-> "InvalidInput"]
    ELSE [isValid |-> TRUE, error |-> "none"]

\* validatePurchase refusing a delivery that would exactly fill the tank.
validatePurchaseStrict(tankId, litresToUnload) ==
    IF tankId \notin DOMAIN tanks
    THEN [isValid |-> FALSE, error |-> "NotFound"]
    ELSE IF litresToUnload <= 0
    THEN [isValid |-> FALSE, error |-> "InvalidInput"]
    ELSE IF tanks[tankId].capacityLit - tanks[tankId].currentLevel <= litresToUnload
    THEN [isValid |-> FALSE, error |-> "InsufficientCapacity"]
    ELSE [isValid |-> TRUE, error |-> "none"]

validatePurchase(tankId, litresToUnload) ==
    IF tankId \notin DOMAIN tanks
    THEN [isValid |-> FALSE, error |-> "NotFound"]
    ELSE IF litresToUnload <= 0
    THEN [isValid |-> FALSE, error |-> "InvalidInput"]
    ELSE IF tanks[tankId].capacityLit - tanks[tankId].currentLevel < litresToUnload
    THEN [isValid |-> FALSE, error |-> "InsufficientCapacity"]
    ELSE [isValid |-> TRUE, error |-> "none"]

\* prisma.tank.findFirst({ where: { fuelTypeId, isActive: true } })
findFirstTank(fuelTypeId) ==
    IF \E t \in DOMAIN tanks : tanks[t].fuelTypeId = fuelTypeId
    THEN CHOOSE t \in DOMAIN tanks :
            /\ tanks[t].fuelTypeId = fuelTypeId
            /\ \A u \in DOMAIN tanks : tanks[u].fuelTypeId = fuelTypeId => t <= u
    ELSE NoTank

(***************************************************************************)
(* Request bookkeeping.                                                    *)
(***************************************************************************)
\* A process takes a new request when it has none in flight.  The model stops
\* taking requests once a tank level has run past MaxLevel.
Free(p) ==
    /\ pc[p] \in {"idle", "done"}
    /\ \A t \in DOMAIN tanks : tanks[t].currentLevel <= MaxLevel

\* The request of p ends with HTTP status code `status`.
\* What stays of a request once it is answered: the reply, and for a reading
\* what the request found and wrote.
Reply(req, status) ==
    IF req.kind = "reading"
    THEN [kind |-> req.kind, status |-> status, fuelSold |-> req.fuelSold,
          prevFuelSold |-> req.prevFuelSold, levelBefore |-> req.levelBefore,
          wroteReading |-> req.wroteReading, wroteTank |-> req.wroteTank,
          staleWrite |-> req.staleWrite]
    ELSE IF req.kind = "bulk"
    THEN [kind |-> req.kind, status |-> status, entries |-> req.entries,
          fuelSold |-> req.fuelSold, prevFuelSold |-> req.prevFuelSold,
          levelBefore |-> req.levelBefore, wroteReading |-> req.wroteReading,
          staleWrite |-> req.staleWrite]
    ELSE IF req.kind = "unload"
    THEN [kind |-> req.kind, status |-> status, purchaseId |-> req.purchaseId,
          staleWrite |-> req.staleWrite]
    ELSE IF req.kind = "sale"
    THEN [kind |-> req.kind, status |-> status, staleWrite |-> req.staleWrite]
    ELSE IF req.kind \in {"setprices", "setpricesrouter"}
    THEN [kind |-> req.kind, status |-> status, prices |-> req.prices,
          activeBefore |-> req.activeBefore]
    ELSE [kind |-> req.kind, status |-> status]

Respond(p, req, status) ==
    /\ pc' = [pc EXCEPT ![p] = "done"]
    /\ loc' = [loc EXCEPT ![p] = Reply(req, status)]

Goto(p, label, req) ==
    /\ pc' = [pc EXCEPT ![p] = label]
    /\ loc' = [loc EXCEPT ![p] = req]

\* The seeded store (empty tanks, clients without debt) once the owner has
\* replaced the seed's zero prices.
Init ==
    /\ tanks = [t \in TankIds |->
                  [currentLevel |-> 0, capacityLit |-> CapacityLit,
                   avgUnitCost |-> <<0, 1>>, fuelTypeId |-> 1]]
    /\ readings = [k \in (DOMAIN pumps) \X Dates |-> NoReading]
    /\ purchases = <<>>
    /\ prices = <<[fuelTypeId |-> 1, perLitre |-> 1000, isActive |-> TRUE],
                  [fuelTypeId |-> 2, perLitre |-> 900, isActive |-> TRUE]>>
    /\ clients = [c \in ClientIds |-> [balance |-> 0, creditLimit |-> CreditLimit]]
    /\ credits = <<>>
    /\ sales = <<>>
    /\ cashReceipts = <<>>
    /\ onlinePayments = <<>>
    /\ validationData = [none |-> TRUE]
    /\ pc = [p \in Procs |-> "idle"]
    /\ loc = [p \in Procs |-> [kind |-> "none"]]
    /\ requests = 0

(***************************************************************************)
(* POST /api/purchases (purchases router): create a pending purchase.      *)
(***************************************************************************)
\* The router with the tank update done at creation instead of at unload.
PostPurchaseImmediate(p, tankId, litres, unitCost) ==
    /\ Free(p)
    /\ Len(purchases) < MaxPurchases
    /\ LET req == [kind |-> "purchase", tankId |-> tankId, litres |-> litres,
                   unitCost |-> unitCost]
       IN IF litres = 0 \/ unitCost = 0
          THEN Respond(p, req, 400) /\ UNCHANGED <<purchases, tanks>>
          ELSE IF ~validatePurchase(tankId, litres).isValid
          THEN Respond(p, req, 400) /\ UNCHANGED <<purchases, tanks>>
          ELSE /\ purchases' = Append(purchases,
                      [tankId |-> tankId, litres |-> litres, unitCost |-> unitCost,
                       totalCost |-> unitCost * litres, status |-> "pending"])
               /\ tanks' = [tanks EXCEPT
                      ![tankId].currentLevel = @ + litres,
                      ![tankId].avgUnitCost =
                          weightedAvg(@, tanks[tankId].currentLevel, unitCost, litres)]
               /\ Respond(p, req, 201)
    /\ UNCHANGED <<readings, prices, clients, credits, sales,
                   cashReceipts, onlinePayments, validationData>>

PostPurchase(p, tankId, litres, unitCost) ==
    /\ Free(p)
    /\ Len(purchases) < MaxPurchases
    /\ LET req == [kind |-> "purchase", tankId |-> tankId, litres |-> litres,
                   unitCost |-> unitCost]
       IN IF litres = 0 \/ unitCost = 0
          THEN Respond(p, req, 400) /\ UNCHANGED purchases
          ELSE IF ~validatePurchase(tankId, litres).isValid
          THEN Respond(p, req, 400) /\ UNCHANGED purchases
          ELSE /\ purchases' = Append(purchases,
                      [tankId |-> tankId, litres |-> litres, unitCost |-> unitCost,
                       totalCost |-> unitCost * litres, status |-> "pending"])
               /\ Respond(p, req, 201)
    /\ UNCHANGED <<tanks, readings, prices, clients, credits, sales,
                   cashReceipts, onlinePayments, validationData>>

(***************************************************************************)
(* POST /api/purchases (application handler, registered before the router  *)
(* is mounted): prisma.purchase.create without validation and without an   *)
(* explicit status.                                                        *)
(***************************************************************************)
\* Value of Purchase.status when create() does not give one (column default
\* of the Prisma schema).
purchaseStatusDefault == "pending"

AppPostPurchase(p, tankId, litres, unitCost) ==
    /\ Free(p)
    /\ Len(purchases) < MaxPurchases
    /\ LET req == [kind |-> "apppurchase", tankId |-> tankId, litres |-> litres,
                   unitCost |-> unitCost]
       IN IF tankId \notin TankIds
          THEN Respond(p, req, 500) /\ UNCHANGED purchases
          ELSE /\ purchases' = Append(purchases,
                      [tankId |-> tankId, litres |-> litres, unitCost |-> unitCost,
                       totalCost |-> litres * unitCost,
                       status |-> purchaseStatusDefault])
               /\ Respond(p, req, 201)
    /\ UNCHANGED <<tanks, readings, prices, clients, credits, sales,
                   cashReceipts, onlinePayments, validationData>>

(***************************************************************************)
(* PUT /api/purchases/:id/unload.                                          *)
(***************************************************************************)
\* findUnique(purchase, include tank) and the status check.
Unload_FindNoStatusCheck(p, purchaseId) ==
    /\ Free(p)
    /\ LET req == [kind |-> "unload", purchaseId |-> purchaseId,
                   checkedLevel |-> 0 - 1, staleWrite |-> FALSE]
       IN IF purchaseId \notin DOMAIN purchases
          THEN Respond(p, req, 404)
          ELSE LET pur == purchases[purchaseId]
                   tank == tanks[pur.tankId]
               IN Goto(p, "unload_validate",
                       [tankId |-> pur.tankId, litres |-> pur.litres,
                        unitCost |-> pur.unitCost,
                        tankLevel |-> tank.currentLevel,
                        tankAvg |-> tank.avgUnitCost,
                        newLevel |-> tank.currentLevel + pur.litres] @@ req)
    /\ UNCHANGED <<store, validationData>>

Unload_Find(p, purchaseId) ==
    /\ Free(p)
    /\ LET req == [kind |-> "unload", purchaseId |-> purchaseId,
                   checkedLevel |-> 0 - 1, staleWrite |-> FALSE]
       IN IF purchaseId \notin DOMAIN purchases
          THEN Respond(p, req, 404)
          ELSE IF purchases[purchaseId].status = "unloaded"
          THEN Respond(p, req, 400)
          ELSE LET pur == purchases[purchaseId]
                   tank == tanks[pur.tankId]
               IN Goto(p, "unload_validate",
                       [tankId |-> pur.tankId, litres |-> pur.litres,
                        unitCost |-> pur.unitCost,
                        tankLevel |-> tank.currentLevel,
                        tankAvg |-> tank.avgUnitCost,
                        newLevel |-> tank.currentLevel + pur.litres] @@ req)
    /\ UNCHANGED <<store, validationData>>

\* tankValidator.validatePurchase reads the tank again.
Unload_Validate(p) ==
    /\ pc[p] = "unload_validate"
    /\ IF ~validatePurchase(loc[p].tankId, loc[p].litres).isValid
       THEN Respond(p, loc[p], 400)
       ELSE Goto(p, "unload_tx",
                 [loc[p] EXCEPT !.checkedLevel = tanks[loc[p].tankId].currentLevel])
    /\ UNCHANGED <<store, validationData>>

\* prisma.$transaction: purchase.status and the tank row, from the values
\* of the tank object fetched by Unload_Find.
Unload_Tx(p) ==
    /\ pc[p] = "unload_tx"
    /\ LET l == loc[p]
           avgUnitCost == weightedAvg(l.tankAvg, l.tankLevel, l.unitCost, l.litres)
       IN /\ purchases' = [purchases EXCEPT ![l.purchaseId].status = "unloaded"]
          /\ tanks' = [tanks EXCEPT ![l.tankId].currentLevel = l.newLevel,
                                    ![l.tankId].avgUnitCost = avgUnitCost]
          /\ Respond(p, [l EXCEPT !.staleWrite =
                            (tanks[l.tankId].currentLevel # l.tankLevel)], 200)
    /\ UNCHANGED <<readings, prices, clients, credits, sales,
                   cashReceipts, onlinePayments, validationData>>

(***************************************************************************)
(* POST /api/readings: one pump reading.                                   *)
(***************************************************************************)
\* The comparison of the revision that computed the fuel sold as opening
\* minus closing.
invalidReadingValuesReversed(openingLitres, closingLitres) ==
    closingLitres > openingLitres

\* if (openingLitres > closingLitres) return res.status(400): 'Opening litres
\* cannot be greater than closing litres (fuel cannot be added)'.
invalidReadingValues(openingLitres, closingLitres) ==
    openingLitres > closingLitres

\* Request validation, pump lookup and tank lookup (prisma.tank.findFirst).
PostReading_Find(p, pumpId, date, openingLitres, closingLitres, pricePerLitre) ==
    /\ Free(p)
    /\ LET fuelSold == closingLitres - openingLitres
           req == [kind |-> "reading", pumpId |-> pumpId, date |-> date,
                   openingLitres |-> openingLitres, closingLitres |-> closingLitres,
                   pricePerLitre |-> pricePerLitre, fuelSold |-> fuelSold,
                   calculatedRevenue |->
                       IF fuelSold > 0 THEN fuelSold * pricePerLitre ELSE 0,
                   prevFuelSold |-> soldOf(readings[<<pumpId, date>>]),
                   levelBefore |-> 0 - 1, checkedLevel |-> 0 - 1,
                   wroteReading |-> FALSE, wroteTank |-> FALSE,
                   staleWrite |-> FALSE]
       IN IF invalidReadingValues(openingLitres, closingLitres)
          THEN Respond(p, req, 400)
          ELSE IF pumpId \notin DOMAIN pumps
          THEN Respond(p, req, 404)
          ELSE LET t == findFirstTank(pumps[pumpId].fuelTypeId)
               IN IF t = NoTank
                  THEN Respond(p, req, 404)
                  ELSE Goto(p, IF fuelSold > 0 THEN "reading_validate" ELSE "reading_tx",
                            [tankId |-> t, tankLevel |-> tanks[t].currentLevel]
                            @@ [req EXCEPT !.levelBefore = tanks[t].currentLevel])
    /\ UNCHANGED <<store, validationData>>

\* if (fuelSold > 0) tankValidator.validateSale(tank.id, fuelSold)
PostReading_Validate(p) ==
    /\ pc[p] = "reading_validate"
    /\ IF ~validateSale(loc[p].tankId, loc[p].fuelSold).isValid
       THEN Respond(p, loc[p], 400)
       ELSE Goto(p, "reading_tx",
                 [loc[p] EXCEPT !.checkedLevel = tanks[loc[p].tankId].currentLevel])
    /\ UNCHANGED <<store, validationData>>

\* The deduction with the sign of the revision that took the fuel sold as
\* opening minus closing.
readingDeductionReversed(l) == 0 - l.fuelSold

\* The litres the single-reading transaction takes from the tank.
readingDeduction(l) == l.fuelSold

\* prisma.$transaction: upsert of the reading, then the tank deduction from
\* the tank object fetched by PostReading_Find.  The insufficient-fuel branch
\* returns from the callback (it does not throw), so the transaction commits
\* the upsert alone.
\* The same update also clearing the average cost of a tank that runs empty.
tankAfterReadingResetCost(tank, newTankLevel) ==
    [tank EXCEPT !.currentLevel = newTankLevel,
                 !.avgUnitCost = IF newTankLevel = 0 THEN <<0, 1>> ELSE @]

\* tx.tank.update({ where: { id }, data: { currentLevel: newTankLevel } })
tankAfterReading(tank, newTankLevel) ==
    [tank EXCEPT !.currentLevel = newTankLevel]

PostReading_Tx(p) ==
    /\ pc[p] = "reading_tx"
    /\ LET l == [loc[p] EXCEPT !.prevFuelSold = soldOf(readings[<<loc[p].pumpId, loc[p].date>>])]
           row == [openingLitres |-> l.openingLitres, closingLitres |-> l.closingLitres,
                   pricePerLitre |-> l.pricePerLitre, revenue |-> l.calculatedRevenue]
           newTankLevel == l.tankLevel - readingDeduction(l)
       IN /\ readings' = [readings EXCEPT ![<<l.pumpId, l.date>>] = row]
          /\ IF l.fuelSold > 0
             THEN IF newTankLevel < 0
                  THEN /\ UNCHANGED tanks
                       /\ Respond(p, [l EXCEPT !.wroteReading = TRUE], 400)
                  ELSE /\ tanks' = [tanks EXCEPT ![l.tankId] =
                                       tankAfterReading(@, newTankLevel)]
                       /\ Respond(p, [l EXCEPT !.wroteReading = TRUE,
                                               !.wroteTank = TRUE,
                                               !.staleWrite =
                                 (tanks[l.tankId].currentLevel # l.tankLevel)], 201)
             ELSE /\ UNCHANGED tanks
                  /\ Respond(p, [l EXCEPT !.wroteReading = TRUE], 201)
    /\ UNCHANGED <<purchases, prices, clients, credits, sales,
                   cashReceipts, onlinePayments, validationData>>

(***************************************************************************)
(* POST /api/readings/bulk.                                                *)
(***************************************************************************)
BulkEntries(dates, openings) ==
    [pumpId : PumpIds, date : dates, openingLitres : openings,
     closingLitres : Litres, pricePerLitre : PriceInputs, revenue : {0}]

BulkRequests(dates, openings, maxLen) ==
    UNION {[1 .. n -> BulkEntries(dates, openings)] : n \in 0 .. maxLen}

\* existingReadings.forEach(... existingReadingsMap.set(key, reading)): the
\* stored readings of the request's pumps on the day of readings[0].
existingReadingsMap(rs) ==
    LET keys == {k \in DOMAIN readings :
                    /\ readings[k] # NoReading
                    /\ \E i \in DOMAIN rs : rs[i].pumpId = k[1]
                    /\ k[2] = rs[1].date}
    IN [k \in keys |-> readings[k]]

\* netFuelSold of one entry of the request.
netFuelSold(r, existingMap) ==
    IF <<r.pumpId, r.date>> \in DOMAIN existingMap
    THEN (r.closingLitres - r.openingLitres)
         - (existingMap[<<r.pumpId, r.date>>].closingLitres
            - existingMap[<<r.pumpId, r.date>>].openingLitres)
    ELSE r.closingLitres - r.openingLitres

\* First pass of the handler: every reading is saved outside any transaction
\* while fuelTypeTotals accumulates; an unknown pump ends the request there.
RECURSIVE saveReadings(_, _, _, _)
saveReadings(rs, existingMap, rds, totals) ==
    IF rs = <<>>
    THEN [readings |-> rds, fuelTypeTotals |-> totals, status |-> 0]
    ELSE LET r == Head(rs)
         IN IF r.pumpId \notin DOMAIN pumps
            THEN [readings |-> rds, fuelTypeTotals |-> totals, status |-> 400]
            ELSE LET ft == pumps[r.pumpId].fuelTypeId
                     net == netFuelSold(r, existingMap)
                     totals2 == IF net = 0 THEN totals
                                ELSE IF ft \in DOMAIN totals
                                THEN [totals EXCEPT ![ft] = @ + net]
                                ELSE (ft :> net) @@ totals
                     row == [openingLitres |-> r.openingLitres,
                             closingLitres |-> r.closingLitres,
                             pricePerLitre |-> r.pricePerLitre,
                             revenue |-> r.revenue]
                 IN saveReadings(Tail(rs), existingMap,
                                 [rds EXCEPT ![<<r.pumpId, r.date>>] = row], totals2)

\* Request validation, the findMany of the existing readings and the first
\* pass (the readings are written one by one, outside any transaction).
PostBulk_Save(p, rs) ==
    /\ Free(p)
    /\ LET req == [kind |-> "bulk", entries |-> Len(rs),
                   fuelSold |-> IF rs = <<>> THEN 0
                                ELSE rs[1].closingLitres - rs[1].openingLitres,
                   prevFuelSold |-> IF rs = <<>> THEN 0 - 1
                                    ELSE soldOf(readings[<<rs[1].pumpId, rs[1].date>>]),
                   levelBefore |-> tanks[1].currentLevel, wroteReading |-> FALSE,
                   staleWrite |-> FALSE]
           saved == [req EXCEPT !.wroteReading =
                        rs # <<>> /\ rs[1].pumpId \in DOMAIN pumps]
           out == saveReadings(rs, existingReadingsMap(rs), readings, <<>>)
       IN IF Len(rs) = 0 \/ Len(rs) > MAX_READINGS_PER_REQUEST
          THEN UNCHANGED readings /\ Respond(p, req, 400)
          ELSE IF \E i \in DOMAIN rs :
                     invalidReadingValues(rs[i].openingLitres, rs[i].closingLitres)
          THEN UNCHANGED readings /\ Respond(p, req, 400)
          ELSE /\ readings' = out.readings
               /\ IF out.status = 400
                  THEN Respond(p, saved, 400)
                  ELSE Goto(p, "bulk_txread",
                            [fuelTypeTotals |-> out.fuelTypeTotals] @@ saved)
    /\ UNCHANGED <<tanks, purchases, prices, clients, credits, sales,
                   cashReceipts, onlinePayments, validationData>>

\* Inside the transaction: tx.tank.findFirst for every fuel type of
\* fuelTypeTotals.
PostBulk_TxRead(p) ==
    /\ pc[p] = "bulk_txread"
    /\ LET l == loc[p]
           found == {ft \in DOMAIN l.fuelTypeTotals : findFirstTank(ft) # NoTank}
       IN Goto(p, "bulk_txwrite",
               [txTanks |-> [ft \in found |->
                               [id |-> findFirstTank(ft),
                                currentLevel |-> tanks[findFirstTank(ft)].currentLevel]]]
               @@ l)
    /\ UNCHANGED <<store, validationData>>

\* newTankLevel = tank.currentLevel - netFuelChange, the insufficient-fuel
\* throw (which rolls the tank updates back) and tx.tank.update.
PostBulk_TxWrite(p) ==
    /\ pc[p] = "bulk_txwrite"
    /\ LET l == loc[p]
           newTankLevel(ft) == l.txTanks[ft].currentLevel - l.fuelTypeTotals[ft]
           insufficient == \E ft \in DOMAIN l.txTanks :
                              l.fuelTypeTotals[ft] > 0 /\ newTankLevel(ft) < 0
       IN IF insufficient
          THEN UNCHANGED tanks /\ Respond(p, l, 400)
          ELSE /\ tanks' = [t \in DOMAIN tanks |->
                              IF \E ft \in DOMAIN l.txTanks : l.txTanks[ft].id = t
                              THEN [tanks[t] EXCEPT !.currentLevel =
                                      newTankLevel(tanks[t].fuelTypeId)]
                              ELSE tanks[t]]
               /\ Respond(p, [l EXCEPT !.staleWrite =
                                 \E ft \in DOMAIN l.txTanks :
                                    tanks[l.txTanks[ft].id].currentLevel
                                        # l.txTanks[ft].currentLevel], 201)
    /\ UNCHANGED <<readings, purchases, prices, clients, credits, sales,
                   cashReceipts, onlinePayments, validationData>>

(***************************************************************************)
(* POST /api/sales (sales router): a direct sale from a tank.              *)
(***************************************************************************)
\* prisma.price.findFirst({ where: { fuelTypeId, isActive: true },
\*                          orderBy: { createdAt: 'desc' } })
NoPrice == 0
activePrice(fuelTypeId) ==
    LET act == {i \in DOMAIN prices :
                   prices[i].fuelTypeId = fuelTypeId /\ prices[i].isActive}
    IN IF act = {} THEN NoPrice
       ELSE CHOOSE i \in act : \A j \in act : j <= i

PostSale_Validate(p, tankId, litres, method, clientId) ==
    /\ Free(p)
    /\ Len(sales) < MaxSales
    /\ LET req == [kind |-> "sale", tankId |-> tankId, litres |-> litres,
                   method |-> method, clientId |-> clientId,
                   checkedLevel |-> 0 - 1, staleWrite |-> FALSE]
       IN IF litres <= 0
          THEN Respond(p, req, 400)
          ELSE IF ~validateSale(tankId, litres).isValid
          THEN Respond(p, req, 400)
          ELSE Goto(p, "sale_txread",
                    [req EXCEPT !.checkedLevel = tanks[tankId].currentLevel])
    /\ UNCHANGED <<store, validationData>>

\* The transaction without its re-check of the level.
insufficientFuelUnchecked(currentLevel, litres) == FALSE

\* if (Number(tank.currentLevel) < Number(litres)) throw: the double-check on
\* the tank read inside the transaction.
insufficientFuel(currentLevel, litres) == currentLevel < litres

\* Inside the transaction: tx.tank.findUnique and the "double-check"; a throw
\* rolls the transaction back and the request ends without a success reply.
PostSale_TxRead(p) ==
    /\ pc[p] = "sale_txread"
    /\ LET l == loc[p]
       IN IF insufficientFuel(tanks[l.tankId].currentLevel, l.litres)
          THEN Respond(p, l, 500)
          ELSE Goto(p, "sale_txwrite",
                    [tankLevel |-> tanks[l.tankId].currentLevel] @@ l)
    /\ UNCHANGED <<store, validationData>>

\* A sale whose tank update is dropped.
levelAfterSaleKept(tankLevel, litres) == tankLevel

\* data: { currentLevel: Number(tank.currentLevel) - Number(litres) }
levelAfterSale(tankLevel, litres) == tankLevel - litres

\* Rest of the transaction: price lookup, the CREDIT branch, the tank update
\* from the level read by PostSale_TxRead, and the Sale row.
PostSale_TxWrite(p) ==
    /\ pc[p] = "sale_txwrite"
    /\ LET l == loc[p]
           fuelTypeId == tanks[l.tankId].fuelTypeId
           price == activePrice(fuelTypeId)
           perLitre == IF price = NoPrice THEN 0 ELSE prices[price].perLitre
           totalAmount == l.litres * perLitre
           isCredit == l.method = "CREDIT"
           newBalance == IF l.clientId \in DOMAIN clients
                         THEN clients[l.clientId].balance + totalAmount ELSE 0
           thrown ==
               \/ price = NoPrice
               \/ /\ isCredit
                  /\ \/ l.clientId = 0
                     \/ l.clientId \notin DOMAIN clients
                     \/ newBalance > clients[l.clientId].creditLimit
       IN IF thrown
          THEN /\ UNCHANGED <<tanks, clients, credits, sales>>
               /\ Respond(p, l, 500)
          ELSE /\ IF isCredit
                  THEN /\ clients' = [clients EXCEPT ![l.clientId].balance = newBalance]
                       /\ credits' = Append(credits,
                              [clientId |-> l.clientId, totalAmount |-> totalAmount,
                               status |-> "unpaid", paymentMethod |-> "none",
                               date |-> 1, paidDate |-> 0])
                  ELSE UNCHANGED <<clients, credits>>
               /\ tanks' = [tanks EXCEPT ![l.tankId].currentLevel =
                               levelAfterSale(l.tankLevel, l.litres)]
               /\ sales' = Append(sales,
                      [litres |-> l.litres, totalAmount |-> totalAmount,
                       paymentMethod |-> l.method, clientId |-> l.clientId])
               /\ Respond(p, [l EXCEPT !.staleWrite =
                                 (tanks[l.tankId].currentLevel # l.tankLevel)], 201)
    /\ UNCHANGED <<readings, purchases, prices, cashReceipts, onlinePayments,
                   validationData>>

(***************************************************************************)
(* Client credit.                                                          *)
(***************************************************************************)
CreditAmounts == {400, 1500}
PaymentMethods == {"UPI", "Worker", "Owner", "Cheque"}

newCredit(clientId, totalAmount, date) ==
    [clientId |-> clientId, totalAmount |-> totalAmount, status |-> "unpaid",
     paymentMethod |-> "none", date |-> date, paidDate |-> 0]

\* POST /api/credits: one clientCredit.create; an unknown client violates the
\* foreign key and the catch answers 500.
PostCredit(p, clientId, totalAmount, date) ==
    /\ Free(p)
    /\ Len(credits) < MaxCredits
    /\ IF clientId \notin DOMAIN clients
       THEN UNCHANGED credits /\ Respond(p, [kind |-> "credit"], 500)
       ELSE /\ credits' = Append(credits, newCredit(clientId, totalAmount, date))
            /\ Respond(p, [kind |-> "credit"], 201)
    /\ UNCHANGED <<tanks, readings, purchases, prices, clients, sales,
                   cashReceipts, onlinePayments, validationData>>

\* POST /api/clients/:id/credit: one transaction creating the credit and
\* incrementing the balance.
PostClientCredit(p, id, litres, pricePerLitre, totalAmount, date) ==
    /\ Free(p)
    /\ Len(credits) < MaxCredits
    /\ LET finalTotalAmount == IF totalAmount # 0 THEN totalAmount
                               ELSE litres * pricePerLitre
       IN IF litres = 0
          THEN UNCHANGED <<credits, clients>>
               /\ Respond(p, [kind |-> "clientcredit"], 400)
          ELSE IF id \notin DOMAIN clients
          THEN UNCHANGED <<credits, clients>>
               /\ Respond(p, [kind |-> "clientcredit"], 500)
          ELSE /\ credits' = Append(credits, newCredit(id, finalTotalAmount, date))
               /\ clients' = [clients EXCEPT ![id].balance = @ + finalTotalAmount]
               /\ Respond(p, [kind |-> "clientcredit"], 201)
    /\ UNCHANGED <<tanks, readings, purchases, prices, sales,
                   cashReceipts, onlinePayments, validationData>>

\* PUT /api/credits/:id/mark-paid of index.ts; now is the day of new Date().
MarkPaid(p, id, paymentMethod, now) ==
    /\ Free(p)
    /\ IF paymentMethod \notin {"UPI", "Worker", "Owner"}
       THEN UNCHANGED credits /\ Respond(p, [kind |-> "markpaid"], 400)
       ELSE IF id \notin DOMAIN credits
       THEN UNCHANGED credits /\ Respond(p, [kind |-> "markpaid"], 500)
       ELSE /\ credits' = [credits EXCEPT ![id].status = "paid",
                                          ![id].paidDate = now,
                                          ![id].paymentMethod = paymentMethod]
            /\ Respond(p, [kind |-> "markpaid"], 200)
    /\ UNCHANGED <<tanks, readings, purchases, prices, clients, sales,
                   cashReceipts, onlinePayments, validationData>>

\* PUT /:id/mark-paid of createCreditsRouter: one transaction setting the
\* credit paid and decrementing the balance.
MarkPaidRouter(p, id, now) ==
    /\ Free(p)
    /\ IF id \notin DOMAIN credits
       THEN UNCHANGED <<credits, clients>> /\ Respond(p, [kind |-> "markpaidrouter"], 500)
       ELSE /\ credits' = [credits EXCEPT ![id].status = "paid",
                                          ![id].paidDate = now]
            /\ clients' = [clients EXCEPT ![credits[id].clientId].balance =
                               @ - credits[id].totalAmount]
            /\ Respond(p, [kind |-> "markpaidrouter"], 200)
    /\ UNCHANGED <<tanks, readings, purchases, prices, sales,
                   cashReceipts, onlinePayments, validationData>>

(***************************************************************************)
(* Prices.  A request body maps fuel type names to values; fuelTypeMap is   *)
(* the name -> id map built from the FuelType table.                        *)
(***************************************************************************)
fuelTypeMap == ("petrol" :> 1) @@ ("diesel" :> 2)
PriceValues == {1000, 1100}

\* Request bodies of POST /api/prices/set: prices for one or both fuel
\* types, a negative price, and a name that is no fuel type.
PriceSetRequests ==
    UNION {[S -> PriceValues] : S \in (SUBSET {"petrol", "diesel"}) \ {{}}}
    \cup {("petrol" :> (0 - 1)), ("kerosene" :> 1000),
          ("petrol" :> 1100) @@ ("kerosene" :> 1000)}

activeRows(ps, fts) == {i \in DOMAIN ps : ps[i].isActive /\ ps[i].fuelTypeId \in fts}

deactivate(ps, fts) ==
    [i \in DOMAIN ps |->
        IF ps[i].fuelTypeId \in fts THEN [ps[i] EXCEPT !.isActive = FALSE] ELSE ps[i]]

\* The rows of priceEntries, in the order of the fuel type ids.
RECURSIVE priceEntries(_, _)
priceEntries(req, names) ==
    IF names = {} THEN <<>>
    ELSE LET n == CHOOSE n \in names :
                     \A m \in names : fuelTypeMap[n] <= fuelTypeMap[m]
         IN <<[fuelTypeId |-> fuelTypeMap[n], perLitre |-> req[n],
               isActive |-> TRUE]>>
            \o priceEntries(req, names \ {n})

\* POST /api/prices/set of index.ts, up to and including
\* prisma.price.updateMany({ where: { isActive: true } }).
SetPrices_DeactivateKeep(p, req) ==
    /\ Free(p)
    /\ prices' = prices
    /\ Goto(p, "prices_create",
            [kind |-> "setprices", prices |-> req,
             activeBefore |-> activeRows(prices, FuelTypes)])
    /\ UNCHANGED <<tanks, readings, purchases, clients, credits, sales,
                   cashReceipts, onlinePayments, validationData>>

SetPrices_Deactivate(p, req) ==
    /\ Free(p)
    /\ prices' = deactivate(prices, FuelTypes)
    /\ Goto(p, "prices_create",
            [kind |-> "setprices", prices |-> req,
             activeBefore |-> activeRows(prices, FuelTypes)])
    /\ UNCHANGED <<tanks, readings, purchases, clients, credits, sales,
                   cashReceipts, onlinePayments, validationData>>

\* The loop over Object.entries(prices) and prisma.price.createMany.
SetPrices_Create(p) ==
    /\ pc[p] = "prices_create"
    /\ LET l == loc[p]
           req == l.prices
       IN IF \E n \in DOMAIN req : n \notin DOMAIN fuelTypeMap \/ req[n] < 0
          THEN UNCHANGED prices /\ Respond(p, l, 400)
          ELSE /\ prices' = prices \o priceEntries(req, DOMAIN req)
               /\ Respond(p, l, 200)
    /\ UNCHANGED <<tanks, readings, purchases, clients, credits, sales,
                   cashReceipts, onlinePayments, validationData>>

\* POST / of createPricesRouter: one transaction.
PostPrice(p, fuelTypeId, perLitre) ==
    /\ Free(p)
    /\ prices' = deactivate(prices, {fuelTypeId})
                 \o <<[fuelTypeId |-> fuelTypeId, perLitre |-> perLitre,
                       isActive |-> TRUE]>>
    /\ Respond(p, [kind |-> "price"], 201)
    /\ UNCHANGED <<tanks, readings, purchases, clients, credits, sales,
                   cashReceipts, onlinePayments, validationData>>

\* POST /set of createPricesRouter: every fuel type must be priced; one
\* transaction deactivates the active rows and creates one row per fuel type.
SetPricesRouter(p, req) ==
    /\ Free(p)
    /\ LET l == [kind |-> "setpricesrouter", prices |-> req,
                 activeBefore |-> activeRows(prices, FuelTypes)]
       IN IF \E n \in DOMAIN fuelTypeMap : n \notin DOMAIN req
          THEN UNCHANGED prices /\ Respond(p, l, 400)
          ELSE /\ prices' = deactivate(prices, FuelTypes)
                            \o priceEntries(req, DOMAIN fuelTypeMap)
               /\ Respond(p, l, 201)
    /\ UNCHANGED <<tanks, readings, purchases, clients, credits, sales,
                   cashReceipts, onlinePayments, validationData>>

(***************************************************************************)
(* Money received and the daily validation (GET /api/validation).          *)
(***************************************************************************)
CashAmounts == {400, 405}
OnlineAmounts == {200, 210}

PostCashReceipt(p, amount, date) ==
    /\ Free(p)
    /\ Len(cashReceipts) < MaxReceipts
    /\ cashReceipts' = Append(cashReceipts, [amount |-> amount, date |-> date])
    /\ Respond(p, [kind |-> "cash"], 201)
    /\ UNCHANGED <<tanks, readings, purchases, prices, clients, credits, sales,
                   onlinePayments, validationData>>

PostOnlinePayment(p, amount, date) ==
    /\ Free(p)
    /\ Len(onlinePayments) < MaxPayments
    /\ onlinePayments' = Append(onlinePayments, [amount |-> amount, date |-> date])
    /\ Respond(p, [kind |-> "online"], 201)
    /\ UNCHANGED <<tanks, readings, purchases, prices, clients, credits, sales,
                   cashReceipts, validationData>>

\* rows.reduce((sum, r) => sum + Number(r.amount), 0) over the rows of the day
RECURSIVE totalAmountOn(_, _)
totalAmountOn(rows, date) ==
    IF rows = <<>> THEN 0
    ELSE (IF Head(rows).date = date THEN Head(rows).amount ELSE 0)
         + totalAmountOn(Tail(rows), date)

\* where: { date: { gte: startDate, lte: endDate } } on clientCredit
RECURSIVE totalCreditSalesOn(_, _)
totalCreditSalesOn(rows, date) ==
    IF rows = <<>> THEN 0
    ELSE (IF Head(rows).date = date THEN Head(rows).totalAmount ELSE 0)
         + totalCreditSalesOn(Tail(rows), date)

\* where: { paidDate in the day, status: 'paid', paymentMethod in [...] }
countsAsCreditPaymentAnyMethod(credit, date) ==
    /\ credit.paidDate = date
    /\ credit.status = "paid"

countsAsCreditPayment(credit, date) ==
    /\ credit.paidDate = date
    /\ credit.status = "paid"
    /\ credit.paymentMethod \in {"Worker", "UPI"}

RECURSIVE totalCreditPaymentsOn(_, _)
totalCreditPaymentsOn(rows, date) ==
    IF rows = <<>> THEN 0
    ELSE (IF countsAsCreditPayment(Head(rows), date)
          THEN Head(rows).totalAmount ELSE 0)
         + totalCreditPaymentsOn(Tail(rows), date)

\* prices.find(p => p.fuelTypeId === reading.pump.fuelTypeId) over the
\* active rows.
currentPrice(fuelTypeId) ==
    LET act == activeRows(prices, {fuelTypeId})
    IN IF act = {} THEN NoPrice
       ELSE CHOOSE i \in act : \A j \in act : i <= j

\* readings.forEach: only positive fuel sold counts, at the current price.
RECURSIVE grossSalesOf(_, _)
grossSalesOf(keys, date) ==
    IF keys = {} THEN 0
    ELSE LET k == CHOOSE k \in keys : TRUE
             row == readings[k]
             fuelSold == row.closingLitres - row.openingLitres
             price == currentPrice(pumps[k[1]].fuelTypeId)
         IN (IF price # NoPrice /\ fuelSold > 0
             THEN fuelSold * prices[price].perLitre ELSE 0)
            + grossSalesOf(keys \ {k}, date)

Abs(x) == IF x < 0 THEN 0 - x ELSE x

GetValidation(p, date) ==
    /\ Free(p)
    /\ LET grossSales == grossSalesOf({k \in DOMAIN readings :
                             readings[k] # NoReading /\ k[2] = date}, date)
           totalCashReceipts == totalAmountOn(cashReceipts, date)
           totalOnlinePayments == totalAmountOn(onlinePayments, date)
           totalCreditSales == totalCreditSalesOn(credits, date)
           totalCreditPayments == totalCreditPaymentsOn(credits, date)
           totalReceived == totalCashReceipts + totalOnlinePayments
                            + totalCreditPayments
           expectedTotal == totalReceived + totalCreditSales
           difference == expectedTotal - grossSales
           isBalanced == Abs(difference) < Tolerance
       IN validationData' =
              [date |-> date, grossSales |-> grossSales,
               cashReceipts |-> totalCashReceipts,
               onlinePayments |-> totalOnlinePayments,
               creditSales |-> totalCreditSales,
               creditPayments |-> totalCreditPayments,
               totalReceived |-> totalReceived,
               expectedTotal |-> expectedTotal,
               difference |-> difference, isBalanced |-> isBalanced]
    /\ Respond(p, [kind |-> "validation"], 200)
    /\ UNCHANGED store

(***************************************************************************)
(* Specifications of the tank inventory.                                   *)
(***************************************************************************)
\* The steps a request in flight takes after its first one.
Continue(p) ==
    \/ Unload_Validate(p)
    \/ Unload_Tx(p)
    \/ PostReading_Validate(p)
    \/ PostReading_Tx(p)
    \/ PostBulk_TxRead(p)
    \/ PostBulk_TxWrite(p)
    \/ PostSale_TxRead(p)
    \/ PostSale_TxWrite(p)

ContinueSale(p) ==
    \/ PostSale_TxRead(p)
    \/ PostSale_TxWrite(p)

\* One request at a time, from the seeded store: every request runs to its
\* reply before the next one starts; at most MaxSeqRequests requests.
StartSeq ==
    \/ \E tankId \in TankIds, litres \in Litres, unitCost \in UnitCosts :
          PostPurchase(1, tankId, litres, unitCost)
    \/ \E purchaseId \in 1 .. MaxPurchases : Unload_Find(1, purchaseId)
    \/ \E pumpId \in PumpIds, date \in {1}, o \in Openings, c \in Litres,
          price \in PriceInputs :
          PostReading_Find(1, pumpId, date, o, c, price)
    \/ \E rs \in BulkRequests({1}, Openings, MaxBulk) : PostBulk_Save(1, rs)
    \/ \E tankId \in TankIds, litres \in Litres :
          PostSale_Validate(1, tankId, litres, "CASH", 0)

NextSeq ==
    \/ requests < MaxSeqRequests /\ requests' = requests + 1 /\ StartSeq
    \/ Continue(1) /\ UNCHANGED requests

SpecSeq == Init /\ [][NextSeq]_vars

(***************************************************************************)
(* Deliveries: purchases created through either handler, unloads and cash  *)
(* sales, one request at a time from the seeded store.                     *)
(***************************************************************************)
StartPurchase ==
    \/ \E tankId \in TankIds, litres \in Litres, unitCost \in UnitCosts :
          PostPurchase(1, tankId, litres, unitCost)
    \/ \E tankId \in TankIds \cup {2}, litres \in Litres, unitCost \in UnitCosts :
          AppPostPurchase(1, tankId, litres, unitCost)
    \/ \E purchaseId \in 1 .. MaxPurchases : Unload_Find(1, purchaseId)
    \/ \E tankId \in TankIds, litres \in Litres :
          PostSale_Validate(1, tankId, litres, "CASH", 0)

NextPurchase ==
    \/ requests < MaxPurchaseRequests /\ requests' = requests + 1 /\ StartPurchase
    \/ UNCHANGED requests /\ (Unload_Validate(1) \/ Unload_Tx(1) \/ ContinueSale(1))

SpecPurchase == Init /\ [][NextPurchase]_vars

(***************************************************************************)
(* The TankValidator on its own: a tank at any level up to MaxLevel with   *)
(* one of two capacities, and calls of validateSale and validatePurchase   *)
(* with a known or an unknown tank id and any quantity, negative ones and  *)
(* ones above the level and the capacity included.                         *)
(***************************************************************************)
ValidatorTankIds == TankIds \cup {2}
ValidatorLitres == (0 - 1) .. (MaxLevel + 1)

InitValidator ==
    /\ tanks \in [TankIds -> [currentLevel : 0 .. MaxLevel,
                              capacityLit : {CapacityLit - 1, CapacityLit},
                              avgUnitCost : {<<1, 1>>}, fuelTypeId : {1}]]
    /\ readings = [k \in (DOMAIN pumps) \X Dates |-> NoReading]
    /\ purchases = <<>>
    /\ prices = <<>>
    /\ clients = [c \in ClientIds |-> [balance |-> 0, creditLimit |-> CreditLimit]]
    /\ credits = <<>>
    /\ sales = <<>>
    /\ cashReceipts = <<>>
    /\ onlinePayments = <<>>
    /\ validationData = [none |-> TRUE]
    /\ pc = [p \in Procs |-> "idle"]
    /\ loc = [p \in Procs |-> [kind |-> "none"]]
    /\ requests = 0

CallValidateSale(tankId, litresToSell) ==
    /\ pc' = [pc EXCEPT ![1] = "done"]
    /\ loc' = [loc EXCEPT ![1] = [kind |-> "validateSale", tankId |-> tankId,
                                  litres |-> litresToSell,
                                  result |-> validateSale(tankId, litresToSell)]]
    /\ UNCHANGED <<store, validationData, requests>>

CallValidatePurchase(tankId, litresToUnload) ==
    /\ pc' = [pc EXCEPT ![1] = "done"]
    /\ loc' = [loc EXCEPT ![1] = [kind |-> "validatePurchase", tankId |-> tankId,
                                  litres |-> litresToUnload,
                                  result |-> validatePurchase(tankId, litresToUnload)]]
    /\ UNCHANGED <<store, validationData, requests>>

NextValidator ==
    \/ \E tankId \in ValidatorTankIds, litres \in ValidatorLitres :
          CallValidateSale(tankId, litres)
    \/ \E tankId \in ValidatorTankIds, litres \in ValidatorLitres :
          CallValidatePurchase(tankId, litres)

SpecValidator == InitValidator /\ [][NextValidator]_vars

(***************************************************************************)
(* Concurrent requests.  The store is the one reached from the seeded one  *)
(* by: create purchase 1 (2 l at 1), create purchase 2 (2 l at 2), unload  *)
(* purchase 1.  Two processes then run readings, sales, bulk readings and  *)
(* unloads, interleaved at their database round trips.                     *)
(***************************************************************************)
InitStocked ==
    /\ tanks = [t \in TankIds |->
                  [currentLevel |-> 2, capacityLit |-> CapacityLit,
                   avgUnitCost |-> <<1, 1>>, fuelTypeId |-> 1]]
    /\ readings = [k \in (DOMAIN pumps) \X Dates |-> NoReading]
    /\ purchases = <<[tankId |-> 1, litres |-> 2, unitCost |-> 1,
                      totalCost |-> 2, status |-> "unloaded"],
                     [tankId |-> 1, litres |-> 2, unitCost |-> 2,
                      totalCost |-> 4, status |-> "pending"]>>
    /\ prices = <<[fuelTypeId |-> 1, perLitre |-> 1000, isActive |-> TRUE],
                  [fuelTypeId |-> 2, perLitre |-> 900, isActive |-> TRUE]>>
    /\ clients = [c \in ClientIds |-> [balance |-> 0, creditLimit |-> CreditLimit]]
    /\ credits = <<>>
    /\ sales = <<>>
    /\ cashReceipts = <<>>
    /\ onlinePayments = <<>>
    /\ validationData = [none |-> TRUE]
    /\ pc = [p \in Procs |-> "idle"]
    /\ loc = [p \in Procs |-> [kind |-> "none"]]
    /\ requests = 0

\* The first step of a request of p; at most MaxRequests requests are taken.
Start(p) ==
    \/ \E purchaseId \in 1 .. MaxPurchases : Unload_Find(p, purchaseId)
    \/ \E pumpId \in PumpIds, date \in {1}, o \in Openings, c \in Litres,
          price \in PriceInputs :
          PostReading_Find(p, pumpId, date, o, c, price)
    \/ \E rs \in BulkRequests({1}, {0}, 1) : PostBulk_Save(p, rs)
    \/ \E tankId \in TankIds, litres \in Litres :
          PostSale_Validate(p, tankId, litres, "CASH", 0)

Next ==
    \E p \in Procs :
        \/ requests < MaxRequests /\ requests' = requests + 1 /\ Start(p)
        \/ UNCHANGED requests /\ Continue(p)

Spec == InitStocked /\ [][Next]_vars

(***************************************************************************)
(* Readings of a pump whose fuel type has no active tank: single and bulk  *)
(* readings of the petrol and of the diesel pump, sales and unloads, one   *)
(* request at a time.                                                      *)
(***************************************************************************)
NoTankBulkRequests ==
    UNION {[1 .. n -> [pumpId : DOMAIN pumps, date : {1}, openingLitres : {0},
                       closingLitres : Litres, pricePerLitre : PriceInputs,
                       revenue : {0}]] : n \in 0 .. MaxBulk}

StartNoTank ==
    \/ \E pumpId \in DOMAIN pumps, date \in {1}, o \in Openings, c \in Litres,
          price \in PriceInputs :
          PostReading_Find(1, pumpId, date, o, c, price)
    \/ \E rs \in NoTankBulkRequests : PostBulk_Save(1, rs)
    \/ \E tankId \in TankIds, litres \in Litres :
          PostSale_Validate(1, tankId, litres, "CASH", 0)

NextNoTank ==
    \/ requests < MaxNoTankRequests /\ requests' = requests + 1 /\ StartNoTank
    \/ Continue(1) /\ UNCHANGED requests

SpecNoTank == InitStocked /\ [][NextNoTank]_vars

(***************************************************************************)
(* Tank capacity: the validator's check, the two PUT /api/tanks/:id        *)
(* handlers, POST /update-capacity and the updateTankCapacity script.      *)
(***************************************************************************)
\* TankValidator.validateCapacityUpdate
validateCapacityUpdate(tankId, newCapacity) ==
    IF tankId \notin DOMAIN tanks
    THEN [isValid |-> FALSE, error |-> "NotFound"]
    ELSE IF newCapacity <= 0
    THEN [isValid |-> FALSE, error |-> "InvalidInput"]
    ELSE IF newCapacity < tanks[tankId].currentLevel
    THEN [isValid |-> FALSE, error |-> "BelowCurrentLevel"]
    ELSE [isValid |-> TRUE, error |-> "none"]

\* A field that the request body does not carry.
Undefined == 0 - 1000
CapacityInputs == (0 - 1) .. (CapacityLit + 1)
LevelInputs == {0 - 1, 1}
CapacityTankIds == TankIds \cup {2}

\* app.put('/api/tanks/:id'): prisma.tank.update with the request body as
\* data; update() throws when the tank does not exist.
AppPutTank(p, id, currentLevel, capacityLit) ==
    /\ Free(p)
    /\ LET req == [kind |-> "appputtank"]
       IN IF id \notin DOMAIN tanks
          THEN Respond(p, req, 500) /\ UNCHANGED tanks
          ELSE /\ tanks' = [tanks EXCEPT
                      ![id].currentLevel =
                          IF currentLevel = Undefined THEN @ ELSE currentLevel,
                      ![id].capacityLit =
                          IF capacityLit = Undefined THEN @ ELSE capacityLit]
               /\ Respond(p, req, 200)
    /\ UNCHANGED <<readings, purchases, prices, clients, credits, sales,
                   cashReceipts, onlinePayments, validationData>>

\* router.put('/:id') of createTanksRouter.
PutTank(p, id, currentLevel, capacityLit) ==
    /\ Free(p)
    /\ LET req == [kind |-> "puttank"]
       IN IF currentLevel # Undefined /\ currentLevel < 0
          THEN Respond(p, req, 400) /\ UNCHANGED tanks
          ELSE IF capacityLit # Undefined /\ capacityLit <= 0
          THEN Respond(p, req, 400) /\ UNCHANGED tanks
          ELSE IF currentLevel = Undefined /\ capacityLit = Undefined
          THEN Respond(p, req, 400) /\ UNCHANGED tanks
          ELSE IF id \notin DOMAIN tanks
          THEN Respond(p, req, 500) /\ UNCHANGED tanks
          ELSE /\ tanks' = [tanks EXCEPT
                      ![id].currentLevel =
                          IF currentLevel = Undefined THEN @ ELSE currentLevel,
                      ![id].capacityLit =
                          IF capacityLit = Undefined THEN @ ELSE capacityLit]
               /\ Respond(p, req, 200)
    /\ UNCHANGED <<readings, purchases, prices, clients, credits, sales,
                   cashReceipts, onlinePayments, validationData>>

CapacityUpdates ==
    UNION {[1 .. n -> [tankId : CapacityTankIds, newCapacity : CapacityInputs]] :
              n \in 0 .. MaxUpdates}

\* The loop of POST /update-capacity over req.body.updates: an update without
\* tank id or with newCapacity <= 0 is skipped, an unknown tank is skipped, a
\* capacity below the current level is logged, and capacityLit is written.
RECURSIVE applyCapacityUpdates(_, _)
applyCapacityUpdates(updates, tks) ==
    IF updates = <<>> THEN tks
    ELSE LET update == Head(updates)
             skipped == \/ update.newCapacity = 0
                        \/ update.newCapacity <= 0
                        \/ update.tankId \notin DOMAIN tks
         IN applyCapacityUpdates(Tail(updates),
                IF skipped THEN tks
                ELSE [tks EXCEPT ![update.tankId].capacityLit = update.newCapacity])

PostUpdateCapacity(p, updates) ==
    /\ Free(p)
    /\ LET req == [kind |-> "updatecapacity"]
       IN IF Len(updates) = 0
          THEN Respond(p, req, 400) /\ UNCHANGED tanks
          ELSE /\ tanks' = applyCapacityUpdates(updates, tanks)
               /\ Respond(p, req, 200)
    /\ UNCHANGED <<readings, purchases, prices, clients, credits, sales,
                   cashReceipts, onlinePayments, validationData>>

\* The loop of the updateTankCapacity script: an unknown tank is skipped, a
\* capacity below the current level is printed as a warning, and capacityLit
\* is written.
RECURSIVE scriptCapacityUpdates(_, _)
scriptCapacityUpdates(updates, tks) ==
    IF updates = <<>> THEN tks
    ELSE LET update == Head(updates)
         IN scriptCapacityUpdates(Tail(updates),
                IF update.tankId \notin DOMAIN tks THEN tks
                ELSE [tks EXCEPT ![update.tankId].capacityLit = update.newCapacity])

updateTankCapacity(p, updates) ==
    /\ Free(p)
    /\ tanks' = scriptCapacityUpdates(updates, tanks)
    /\ Respond(p, [kind |-> "script"], 200)
    /\ UNCHANGED <<readings, purchases, prices, clients, credits, sales,
                   cashReceipts, onlinePayments, validationData>>

\* Capacity requests, sales and unloads, one at a time, on the stocked store.
StartCapacity ==
    \/ \E id \in CapacityTankIds, currentLevel \in LevelInputs \cup {Undefined},
          capacityLit \in CapacityInputs \cup {Undefined} :
          AppPutTank(1, id, currentLevel, capacityLit)
    \/ \E id \in CapacityTankIds, currentLevel \in LevelInputs \cup {Undefined},
          capacityLit \in CapacityInputs \cup {Undefined} :
          PutTank(1, id, currentLevel, capacityLit)
    \/ \E updates \in CapacityUpdates : PostUpdateCapacity(1, updates)
    \/ \E updates \in CapacityUpdates : updateTankCapacity(1, updates)
    \/ \E purchaseId \in 1 .. MaxPurchases : Unload_Find(1, purchaseId)
    \/ \E tankId \in TankIds, litres \in Litres :
          PostSale_Validate(1, tankId, litres, "CASH", 0)

NextCapacity ==
    \/ requests < MaxCapacityRequests /\ requests' = requests + 1 /\ StartCapacity
    \/ UNCHANGED requests /\ (Unload_Validate(1) \/ Unload_Tx(1) \/ ContinueSale(1))

SpecCapacity == InitStocked /\ [][NextCapacity]_vars

(***************************************************************************)
(* The credit ledger: one request at a time on the stocked store.          *)
(***************************************************************************)
StartCredit ==
    \/ \E clientId \in ClientIds \cup {2}, totalAmount \in CreditAmounts :
          PostCredit(1, clientId, totalAmount, 1)
    \/ \E id \in ClientIds \cup {2}, litres \in {0, 1},
          totalAmount \in {0} \cup CreditAmounts :
          PostClientCredit(1, id, litres, 1000, totalAmount, 1)
    \/ \E id \in 1 .. MaxCredits, paymentMethod \in PaymentMethods :
          MarkPaid(1, id, paymentMethod, 1)
    \/ \E id \in 1 .. MaxCredits : MarkPaidRouter(1, id, 1)
    \/ \E tankId \in TankIds, litres \in Litres, method \in {"CASH", "CREDIT"},
          clientId \in {0} \cup ClientIds :
          PostSale_Validate(1, tankId, litres, method, clientId)

NextCredit ==
    \/ requests < MaxCreditRequests /\ requests' = requests + 1 /\ StartCredit
    \/ ContinueSale(1) /\ UNCHANGED requests

SpecCredit == InitStocked /\ [][NextCredit]_vars

(***************************************************************************)
(* Price setting: one request at a time (SpecPriceSeq) and two processes   *)
(* interleaved at the database round trips (SpecPrice).                    *)
(***************************************************************************)
StartPrice(p) ==
    \/ \E req \in PriceSetRequests : SetPrices_Deactivate(p, req)
    \/ \E fuelTypeId \in FuelTypes, perLitre \in PriceValues :
          PostPrice(p, fuelTypeId, perLitre)
    \/ \E req \in PriceSetRequests : SetPricesRouter(p, req)

NextPriceSeq ==
    \/ requests < MaxPriceSeqRequests /\ requests' = requests + 1 /\ StartPrice(1)
    \/ SetPrices_Create(1) /\ UNCHANGED requests

SpecPriceSeq == Init /\ [][NextPriceSeq]_vars

NextPrice ==
    \E p \in Procs :
        \/ requests < MaxPriceRequests /\ requests' = requests + 1 /\ StartPrice(p)
        \/ SetPrices_Create(p) /\ UNCHANGED requests

SpecPrice == Init /\ [][NextPrice]_vars

(***************************************************************************)
(* The daily validation.  The store is the stocked one after a reading of  *)
(* pump 1 on day 1 (0 -> 1 litre at 1000).                                 *)
(***************************************************************************)
InitValidation ==
    /\ tanks = [t \in TankIds |->
                  [currentLevel |-> 1, capacityLit |-> CapacityLit,
                   avgUnitCost |-> <<1, 1>>, fuelTypeId |-> 1]]
    /\ readings = [k \in (DOMAIN pumps) \X Dates |->
                     IF k = <<1, 1>>
                     THEN [openingLitres |-> 0, closingLitres |-> 1,
                           pricePerLitre |-> 1000, revenue |-> 1000]
                     ELSE NoReading]
    /\ purchases = <<[tankId |-> 1, litres |-> 2, unitCost |-> 1,
                      totalCost |-> 2, status |-> "unloaded"],
                     [tankId |-> 1, litres |-> 2, unitCost |-> 2,
                      totalCost |-> 4, status |-> "pending"]>>
    /\ prices = <<[fuelTypeId |-> 1, perLitre |-> 1000, isActive |-> TRUE],
                  [fuelTypeId |-> 2, perLitre |-> 900, isActive |-> TRUE]>>
    /\ clients = [c \in ClientIds |-> [balance |-> 0, creditLimit |-> CreditLimit]]
    /\ credits = <<>>
    /\ sales = <<>>
    /\ cashReceipts = <<>>
    /\ onlinePayments = <<>>
    /\ validationData = [none |-> TRUE]
    /\ pc = [p \in Procs |-> "idle"]
    /\ loc = [p \in Procs |-> [kind |-> "none"]]
    /\ requests = 0

NextValidation ==
    /\ UNCHANGED requests
    /\ \/ \E amount \in CashAmounts, date \in Dates : PostCashReceipt(1, amount, date)
       \/ \E amount \in OnlineAmounts, date \in Dates : PostOnlinePayment(1, amount, date)
       \/ \E clientId \in ClientIds, date \in Dates : PostCredit(1, clientId, 400, date)
       \/ \E id \in 1 .. MaxCredits, paymentMethod \in PaymentMethods, now \in Dates :
             MarkPaid(1, id, paymentMethod, now)
       \/ \E date \in Dates : GetValidation(1, date)

SpecValidation == InitValidation /\ [][NextValidation]_vars

\* Gross sales: price changes, readings and validation reports, one request
\* at a time, on the store of the validation example.
StartGross ==
    \/ \E req \in PriceSetRequests : SetPrices_Deactivate(1, req)
    \/ \E pumpId \in PumpIds, date \in Dates, o \in Openings, c \in Litres,
          price \in PriceInputs :
          PostReading_Find(1, pumpId, date, o, c, price)
    \/ \E date \in Dates : GetValidation(1, date)

NextGross ==
    \/ requests < MaxGrossRequests /\ requests' = requests + 1 /\ StartGross
    \/ UNCHANGED requests
       /\ (SetPrices_Create(1) \/ PostReading_Validate(1) \/ PostReading_Tx(1))

SpecGross == InitValidation /\ [][NextGross]_vars

(***************************************************************************)
(* Properties of the tank level.                                           *)
(***************************************************************************)
Succeeded(p) == pc[p] = "done" /\ loc[p].status \in {200, 201}

\* C1: after every committed operation (sale, single reading, bulk reading,
\* unload) every tank has 0 <= currentLevel <= capacityLit.
C1_TankWithinBounds ==
    \A t \in TankIds :
        /\ tanks[t].currentLevel >= 0
        /\ tanks[t].currentLevel <= tanks[t].capacityLit

\* C2: a reading accepted for a (pumpId, date) that already has a reading
\* changes the tank level by the difference between the new and the previous
\* fuelSold, on the single endpoint and on the bulk endpoint alike.
C2_ResubmitAdjustsByDifference ==
    \A p \in Procs :
        (/\ Succeeded(p)
         /\ loc[p].kind \in {"reading", "bulk"}
         /\ loc[p].prevFuelSold >= 0
         /\ (loc[p].kind = "bulk" => loc[p].entries = 1))
        => tanks[1].currentLevel
              = loc[p].levelBefore - (loc[p].fuelSold - loc[p].prevFuelSold)

\* C3: a purchase that is 'unloaded' stays 'unloaded', and an unload request
\* that finds its purchase already 'unloaded' is answered 400 and leaves the
\* tanks and the purchases as they were.
C3_UnloadAtMostOnce ==
    [][\A id \in DOMAIN purchases :
          purchases[id].status = "unloaded" =>
             /\ purchases'[id].status = "unloaded"
             /\ \A p \in Procs :
                   (/\ pc[p] \in {"idle", "done"}
                    /\ loc'[p] # loc[p]
                    /\ loc'[p].kind = "unload"
                    /\ loc'[p].purchaseId = id)
                   => /\ pc'[p] = "done"
                      /\ loc'[p].status = 400
                      /\ tanks' = tanks
                      /\ purchases' = purchases]_vars

C3_Witness ==
    /\ pc[1] = "done"
    /\ loc[1].kind = "unload"
    /\ loc[1].status = 400
    /\ loc[1].purchaseId \in DOMAIN purchases
    /\ purchases[loc[1].purchaseId].status = "unloaded"
    /\ tanks[1].currentLevel + purchases[loc[1].purchaseId].litres
          <= tanks[1].capacityLit

\* C4: POST /api/readings is all-or-nothing: a request that sold fuel has
\* either written both the reading row and the tank level, or neither.
C4_ReadingAllOrNothing ==
    \A p \in Procs :
        (pc[p] = "done" /\ loc[p].kind = "reading" /\ loc[p].fuelSold > 0)
        => (loc[p].wroteReading = loc[p].wroteTank)

RECURSIVE SumOver(_, _)
SumOver(f, S) ==
    IF S = {} THEN 0
    ELSE LET x == CHOOSE x \in S : TRUE IN f[x] + SumOver(f, S \ {x})

unpaidTotal(c) ==
    SumOver([i \in DOMAIN credits |-> credits[i].totalAmount],
            {i \in DOMAIN credits :
                credits[i].clientId = c /\ credits[i].status = "unpaid"})

\* C6: every step that inserts a ClientCredit row inserts it unpaid, raises
\* the client's balance by exactly its totalAmount and keeps the balance
\* within creditLimit (a credit over the limit is never inserted), whatever
\* the creation path.
C6_CreditWithinLimit ==
    [][Len(credits') = Len(credits) + 1 =>
          LET cr == credits'[Len(credits')]
              c == cr.clientId
          IN /\ cr.status = "unpaid"
             /\ clients'[c].balance = clients[c].balance + cr.totalAmount
             /\ clients'[c].balance <= clients[c].creditLimit]_vars

\* C7: each client's balance equals the sum of totalAmount over that
\* client's unpaid ClientCredit rows.
C7_BalanceIsUnpaidTotal ==
    \A c \in DOMAIN clients : clients[c].balance = unpaidTotal(c)

(***************************************************************************)
(* Properties of the prices.                                               *)
(***************************************************************************)
\* C8: each fuel type has at most one active Price row, in every state of
\* two interleaved price requests.
C8_AtMostOneActivePrice ==
    \A ft \in FuelTypes : Cardinality(activeRows(prices, {ft})) <= 1

\* C9: when POST /api/prices/set answers 200, every row that was active for
\* a named fuel type before the request is inactive, and each named fuel
\* type has exactly one active row, carrying the value of the request.
C9_SetPricesReplacesActive ==
    [][\A p \in Procs :
          (/\ pc[p] = "prices_create"
           /\ pc'[p] = "done"
           /\ loc'[p].status = 200)
          => \A n \in DOMAIN loc'[p].prices :
                LET ft == fuelTypeMap[n]
                    act == activeRows(prices', {ft})
                IN /\ \A i \in loc'[p].activeBefore :
                         prices'[i].fuelTypeId = ft => ~prices'[i].isActive
                   /\ Cardinality(act) = 1
                   /\ \A i \in act : prices'[i].perLitre = loc'[p].prices[n]]_vars

C9_Witness ==
    /\ pc[1] = "done"
    /\ loc[1].kind = "setprices"
    /\ loc[1].status = 200
    /\ "petrol" \in DOMAIN loc[1].prices
    /\ loc[1].prices["petrol"] = 1100
    /\ \E i \in loc[1].activeBefore :
          prices[i].fuelTypeId = 1 /\ prices[i].perLitre = 1000
    /\ \E i \in DOMAIN prices :
          prices[i].fuelTypeId = 1 /\ prices[i].isActive /\ prices[i].perLitre = 1100

(***************************************************************************)
(* Properties of the daily validation.                                     *)
(***************************************************************************)
receivedOn(date) ==
    SumOver([i \in DOMAIN cashReceipts |-> cashReceipts[i].amount],
            {i \in DOMAIN cashReceipts : cashReceipts[i].date = date})
    + SumOver([i \in DOMAIN onlinePayments |-> onlinePayments[i].amount],
              {i \in DOMAIN onlinePayments : onlinePayments[i].date = date})
    + SumOver([i \in DOMAIN credits |-> credits[i].totalAmount],
              {i \in DOMAIN credits :
                  /\ credits[i].status = "paid"
                  /\ credits[i].paidDate = date
                  /\ credits[i].paymentMethod \in {"Worker", "UPI"}})

creditSalesOn(date) ==
    SumOver([i \in DOMAIN credits |-> credits[i].totalAmount],
            {i \in DOMAIN credits : credits[i].date = date})

\* C10: the validation of a day reports isBalanced exactly when cash
\* receipts + online payments + credits settled that day by Worker or UPI +
\* credit sales of that day differ from grossSales by less than 0.01;
\* credits settled by Owner are not part of totalReceived.
C10_BalancedIffWithinTolerance ==
    [][validationData' # validationData =>
          LET v == validationData'
          IN /\ v.totalReceived = receivedOn(v.date)
             /\ v.isBalanced <=>
                   Abs(receivedOn(v.date) + creditSalesOn(v.date) - v.grossSales)
                      < Tolerance]_vars

\* The day of the example: gross sales 1000, cash 400, online 200, credit
\* sales 400, no credit payment counted although the credit was settled that
\* day by Owner.
C10_Witness ==
    /\ validationData # [none |-> TRUE]
    /\ validationData.grossSales = 1000
    /\ validationData.cashReceipts = 400
    /\ validationData.onlinePayments = 200
    /\ validationData.creditSales = 400
    /\ validationData.creditPayments = 0
    /\ validationData.isBalanced
    /\ \E i \in DOMAIN credits :
          /\ credits[i].status = "paid"
          /\ credits[i].paymentMethod = "Owner"
          /\ credits[i].paidDate = validationData.date

(***************************************************************************)
(* Properties of purchases and of the average cost.                        *)
(***************************************************************************)
\* C11: the step that commits a successful unload of a purchase of litres > 0
\* sets the purchase to 'unloaded', the tank's currentLevel to L + litres and
\* its avgUnitCost to (c*L + unitCost*litres) / (L + litres), L and c being
\* the tank's values in the store when the step is taken.
C11_UnloadCommitsFromCurrentTank ==
    [][\A p \in Procs :
          (/\ pc[p] = "unload_tx"
           /\ pc'[p] = "done"
           /\ loc'[p].status = 200
           /\ purchases[loc[p].purchaseId].litres > 0)
          => LET id == loc[p].purchaseId
                 t == purchases[id].tankId
                 litres == purchases[id].litres
                 L == tanks[t].currentLevel
                 c == tanks[t].avgUnitCost
                 a == tanks'[t].avgUnitCost
             IN /\ purchases[id].status = "pending"
                /\ purchases'[id].status = "unloaded"
                /\ tanks'[t].currentLevel = L + litres
                /\ a[1] * (c[2] * (L + litres))
                      = a[2] * (c[1] * L + purchases[id].unitCost * litres * c[2])]_vars

\* C12: creating a purchase, through the router or through the application
\* handler, stores one new purchase with status 'pending' and leaves every
\* tank as it was; a tank's level rises and its average cost changes only in
\* the step that commits an unload.
C12_CreateLeavesTanks ==
    [][/\ (/\ requests' # requests
           /\ loc'[1].kind \in {"purchase", "apppurchase"})
          => /\ tanks' = tanks
             /\ loc'[1].status = 201 =>
                   /\ Len(purchases') = Len(purchases) + 1
                   /\ purchases'[Len(purchases')].status = "pending"
                   /\ \A id \in DOMAIN purchases : purchases'[id] = purchases[id]
             /\ loc'[1].status # 201 => purchases' = purchases
       /\ (\E t \in TankIds :
              \/ tanks'[t].currentLevel > tanks[t].currentLevel
              \/ tanks'[t].avgUnitCost # tanks[t].avgUnitCost)
          => /\ pc[1] = "unload_tx"
             /\ purchases[loc[1].purchaseId].status = "pending"
             /\ purchases'[loc[1].purchaseId].status = "unloaded"]_vars

\* A purchase created by the application handler while the tank holds fuel
\* of an earlier delivery.
C12_Witness ==
    /\ pc[1] = "done"
    /\ loc[1].kind = "apppurchase"
    /\ loc[1].status = 201
    /\ purchases[Len(purchases)].status = "pending"
    /\ purchases[1].status = "unloaded"
    /\ tanks[1].currentLevel = purchases[1].litres
    /\ tanks[1].avgUnitCost = <<purchases[1].unitCost, 1>>

\* C13: a tank's avgUnitCost changes only in the step that commits an unload;
\* every step of a sale, of a single reading and of a bulk reading leaves the
\* avgUnitCost of every tank as it was.
C13_AvgCostChangedOnlyByUnload ==
    [][/\ (\E t \in TankIds : tanks'[t].avgUnitCost # tanks[t].avgUnitCost)
          => \E p \in Procs : /\ pc[p] = "unload_tx"
                              /\ pc'[p] = "done"
                              /\ loc'[p].status = 200
       /\ \A p \in Procs :
             (/\ <<pc'[p], loc'[p]>> # <<pc[p], loc[p]>>
              /\ loc'[p].kind \in {"sale", "reading", "bulk"})
             => \A t \in TankIds : tanks'[t].avgUnitCost = tanks[t].avgUnitCost]_vars

\* A reading and a sale have both been committed, the tank has run empty and
\* still carries the average cost of its last delivery.
C13_Witness ==
    \E p, q \in Procs :
        /\ Succeeded(p) /\ loc[p].kind = "reading" /\ loc[p].wroteTank
        /\ Succeeded(q) /\ loc[q].kind = "sale"
        /\ tanks[1].currentLevel = 0
        /\ tanks[1].avgUnitCost = <<1, 1>>

(***************************************************************************)
(* Properties of the TankValidator.                                        *)
(***************************************************************************)
\* C14: validateSale(tankId, litres) fails with 'not found' when the tank
\* does not exist, whatever the litres; for an existing tank it fails when
\* litres <= 0, fails for every litres > currentLevel, and succeeds for every
\* 0 < litres <= currentLevel, litres = currentLevel included.
C14_ValidateSale ==
    (pc[1] = "done" /\ loc[1].kind = "validateSale") =>
        LET tankId == loc[1].tankId
            litres == loc[1].litres
            r == loc[1].result
        IN IF tankId \notin TankIds
           THEN ~r.isValid /\ r.error = "NotFound"
           ELSE /\ litres <= 0 => (~r.isValid /\ r.error = "InvalidInput")
                /\ litres > tanks[tankId].currentLevel =>
                      (~r.isValid /\ r.error = "InsufficientStock")
                /\ (0 < litres /\ litres <= tanks[tankId].currentLevel) => r.isValid

\* validateSale has accepted a sale of exactly the tank's level.
C14_Witness ==
    /\ pc[1] = "done"
    /\ loc[1].kind = "validateSale"
    /\ loc[1].tankId \in TankIds
    /\ loc[1].litres > 0
    /\ loc[1].litres = tanks[loc[1].tankId].currentLevel
    /\ loc[1].result.isValid

\* C15: validatePurchase(tankId, litres) fails when the tank does not exist;
\* for an existing tank it fails when litres <= 0, fails for every
\* litres > capacityLit - currentLevel, and succeeds for every
\* 0 < litres <= capacityLit - currentLevel, a delivery that exactly fills
\* the tank included.
C15_ValidatePurchase ==
    (pc[1] = "done" /\ loc[1].kind = "validatePurchase") =>
        LET tankId == loc[1].tankId
            litres == loc[1].litres
            r == loc[1].result
            space == tanks[tankId].capacityLit - tanks[tankId].currentLevel
        IN IF tankId \notin TankIds
           THEN ~r.isValid /\ r.error = "NotFound"
           ELSE /\ litres <= 0 => (~r.isValid /\ r.error = "InvalidInput")
                /\ (litres > 0 /\ litres > space) =>
                      (~r.isValid /\ r.error = "InsufficientCapacity")
                /\ (0 < litres /\ litres <= space) => r.isValid

\* validatePurchase has accepted a delivery that exactly fills the tank.
C15_Witness ==
    /\ pc[1] = "done"
    /\ loc[1].kind = "validatePurchase"
    /\ loc[1].tankId \in TankIds
    /\ loc[1].litres > 0
    /\ tanks[loc[1].tankId].currentLevel + loc[1].litres
          = tanks[loc[1].tankId].capacityLit
    /\ loc[1].result.isValid

(***************************************************************************)
(* Properties of the tank capacity.                                        *)
(***************************************************************************)
\* C16: no capacity-changing operation commits a capacityLit that is <= 0 or
\* smaller than the tank's currentLevel: a step that changes a tank's
\* capacityLit leaves it positive and at least the level the tank held.
C16_CapacityNotBelowLevel ==
    [][\A t \in TankIds :
          tanks'[t].capacityLit # tanks[t].capacityLit
          => /\ tanks'[t].capacityLit > 0
             /\ tanks'[t].capacityLit >= tanks[t].currentLevel
             /\ validateCapacityUpdate(t, tanks'[t].capacityLit).isValid]_vars

(***************************************************************************)
(* Properties of the readings.                                             *)
(***************************************************************************)
\* C17: whenever POST /api/readings/bulk is rejected, no DailyReading row
\* has been created or updated by the request and no tank's currentLevel
\* has changed.
C17_RejectedBulkWritesNothing ==
    (pc[1] = "done" /\ loc[1].kind = "bulk" /\ loc[1].status = 400)
    => /\ ~loc[1].wroteReading
       /\ tanks[1].currentLevel = loc[1].levelBefore

C19_MarkPaidAtMostOnce ==
    [][\A id \in DOMAIN credits :
          credits[id].status = "paid"
          => /\ credits'[id].status = "paid"
             /\ \A m \in PaymentMethods :
                   (MarkPaid(1, id, m, 1) \/ MarkPaidRouter(1, id, 1))
                   => /\ credits'[id].paymentMethod = credits[id].paymentMethod
                      /\ credits'[id].paidDate = credits[id].paidDate
                      /\ clients' = clients]_vars

C21_ReadingThenUnload ==
    [][/\ (/\ pc[1] = "reading_tx"
           /\ pc'[1] = "done"
           /\ loc'[1].status = 201
           /\ loc[1].closingLitres - loc[1].openingLitres > 0
           /\ readings[<<loc[1].pumpId, loc[1].date>>] = NoReading)
          => LET key == <<loc[1].pumpId, loc[1].date>>
                 sold == loc[1].closingLitres - loc[1].openingLitres
                 t == findFirstTank(pumps[loc[1].pumpId].fuelTypeId)
             IN /\ readings'[key].openingLitres = loc[1].openingLitres
                /\ readings'[key].closingLitres = loc[1].closingLitres
                /\ readings'[key].revenue = sold * loc[1].pricePerLitre
                /\ tanks'[t].currentLevel = tanks[t].currentLevel - sold
       /\ (/\ pc[1] = "unload_tx"
           /\ pc'[1] = "done"
           /\ loc'[1].status = 200)
          => LET id == loc[1].purchaseId
                 t == purchases[id].tankId
             IN tanks'[t].currentLevel
                   = tanks[t].currentLevel + purchases[id].litres]_vars

\* The scenario at the model's scale: a tank stocked with 2 litres, a first
\* reading 0 to 1 at price 1000 (level 1, revenue 1000), then the unload of
\* a purchase of 2 litres (level 3).
C21_Witness ==
    /\ pc[1] = "done"
    /\ loc[1].kind = "unload"
    /\ loc[1].status = 200
    /\ loc[1].purchaseId = 2
    /\ Len(purchases) = 2
    /\ purchases[1].litres = 2 /\ purchases[1].status = "unloaded"
    /\ purchases[2].litres = 2 /\ purchases[2].status = "unloaded"
    /\ readings[<<1, 1>>] # NoReading
    /\ readings[<<1, 1>>].openingLitres = 0
    /\ readings[<<1, 1>>].closingLitres = 1
    /\ readings[<<1, 1>>].revenue = 1000
    /\ tanks[1].currentLevel = 3

(***************************************************************************)
(* Properties of the reports.                                              *)
(***************************************************************************)
\* The sum over the stored readings of a day of max(closing - opening, 0)
\* times the reading's own pricePerLitre.
grossSalesAtStoredPrice(date) ==
    LET keys == {k \in DOMAIN readings : readings[k] # NoReading /\ k[2] = date}
        amount == [k \in keys |->
                     IF readings[k].closingLitres - readings[k].openingLitres > 0
                     THEN (readings[k].closingLitres - readings[k].openingLitres)
                          * readings[k].pricePerLitre
                     ELSE 0]
    IN SumOver(amount, keys)

\* C22: the grossSales of a validation report is the sum over the day's
\* readings of max(closingLitres - openingLitres, 0) times the reading's own
\* stored pricePerLitre, whatever Price rows are active.
C22_GrossSalesAtStoredPrice ==
    [][validationData' # validationData =>
          validationData'.grossSales
             = grossSalesAtStoredPrice(validationData'.date)]_vars

\* C23: a reading request, single or bulk, for a pump whose fuel type has no
\* active tank is answered with an error in its first step and creates or
\* updates no reading row.
C23_NoActiveTankRejected ==
    [][requests' # requests =>
          LET noTank(pumpId) == findFirstTank(pumps[pumpId].fuelTypeId) = NoTank
              rejected == /\ pc'[1] = "done"
                          /\ loc'[1].status \in {400, 404}
                          /\ readings' = readings
          IN /\ \A pumpId \in DOMAIN pumps, date \in Dates, o \in Openings,
                   c \in Litres, price \in PriceInputs :
                   (noTank(pumpId) /\ PostReading_Find(1, pumpId, date, o, c, price))
                   => rejected
             /\ \A rs \in NoTankBulkRequests :
                   (/\ \E i \in DOMAIN rs : noTank(rs[i].pumpId)
                    /\ PostBulk_Save(1, rs))
                   => rejected]_vars

(***************************************************************************)
(* Properties of the price requests.                                       *)
(***************************************************************************)
\* C24: a POST /api/prices/set request rejected with a client error (unknown
\* fuel type name, negative price) leaves the Price rows as they were: the
\* prices active before the request are the prices active after it.
C24_RejectedSetPricesKeepsActive ==
    (pc[1] = "done" /\ loc[1].kind = "setprices" /\ loc[1].status = 400)
    => activeRows(prices, FuelTypes) = loc[1].activeBefore

(***************************************************************************)
(* Properties of interleaved requests.                                     *)
(***************************************************************************)
\* C25: when two unload requests for the same pending purchase are
\* interleaved, at most one of them reports success.
C25_OneUnloadSucceeds ==
    \A p, q \in Procs :
        (/\ p # q
         /\ Succeeded(p) /\ loc[p].kind = "unload"
         /\ Succeeded(q) /\ loc[q].kind = "unload")
        => loc[p].purchaseId # loc[q].purchaseId

\* The net litres sold by the readings rs submitted one at a time on the
\* stored readings rds: each reading counts its fuel sold minus the fuel sold
\* of the row stored for its pump and date when it is submitted.
RECURSIVE sequentialNetSold(_, _)
sequentialNetSold(rs, rds) ==
    IF rs = <<>> THEN 0
    ELSE LET r == Head(rs)
             key == <<r.pumpId, r.date>>
             new == r.closingLitres - r.openingLitres
             old == IF rds[key] = NoReading THEN 0
                    ELSE rds[key].closingLitres - rds[key].openingLitres
             row == [openingLitres |-> r.openingLitres,
                     closingLitres |-> r.closingLitres,
                     pricePerLitre |-> r.pricePerLitre, revenue |-> r.revenue]
         IN (new - old) + sequentialNetSold(Tail(rs), [rds EXCEPT ![key] = row])

\* C26: for an accepted bulk request the tank's resulting currentLevel is its
\* previous level minus the net litres of the same readings submitted one at
\* a time: the net delta the handler computes for the tank's fuel type is
\* that sum, and the transaction writes the level minus that delta.
C26_BulkEqualsOneAtATime ==
    [][LET total(l) == IF 1 \in DOMAIN l.fuelTypeTotals
                       THEN l.fuelTypeTotals[1] ELSE 0
       IN /\ requests' # requests =>
                \A rs \in BulkRequests({1}, Openings, MaxBulk) :
                    (/\ PostBulk_Save(1, rs)
                     /\ pc'[1] = "bulk_txread"
                     /\ ~(total(loc'[1]) > 0
                          /\ tanks[1].currentLevel - total(loc'[1]) < 0))
                    => total(loc'[1]) = sequentialNetSold(rs, readings)
          /\ (pc[1] = "bulk_txwrite" /\ pc'[1] = "done" /\ loc'[1].status = 201)
             => tanks'[1].currentLevel = tanks[1].currentLevel - total(loc[1])]_vars

\* C27: stock conservation.  Between requests of a history of reading
\* submissions and unloads on the seeded store (tank at level 0), the tank's
\* currentLevel is the litres of all unloaded purchases minus the sum over
\* the stored readings of closingLitres - openingLitres.
C27_StockConservation ==
    (pc[1] \in {"idle", "done"} /\ sales = <<>>)
    => LET unloaded == {i \in DOMAIN purchases : purchases[i].status = "unloaded"}
           stored == {k \in DOMAIN readings : readings[k] # NoReading}
       IN tanks[1].currentLevel
             = SumOver([i \in unloaded |-> purchases[i].litres], unloaded)
               - SumOver([k \in stored |-> soldOf(readings[k])], stored)

\* C28: in every interleaving of sale, reading and bulk-reading requests no
\* request commits a currentLevel below 0: the level a request writes is the
\* level its insufficient-fuel check was applied to minus the quantity it
\* checked.
C28_NoNegativeWrite ==
    [][\A p \in Procs :
          (/\ pc[p] \in {"sale_txwrite", "reading_tx", "bulk_txwrite"}
           /\ pc'[p] = "done"
           /\ tanks' # tanks)
          => LET l == loc[p]
                 written == tanks'[1].currentLevel
             IN /\ written >= 0
                /\ pc[p] = "sale_txwrite" =>
                      (l.tankLevel >= l.litres /\ written = l.tankLevel - l.litres)
                /\ pc[p] = "reading_tx" =>
                      (l.tankLevel >= l.fuelSold /\ written = l.tankLevel - l.fuelSold)
                /\ pc[p] = "bulk_txwrite" =>
                      written = l.txTanks[1].currentLevel - l.fuelTypeTotals[1]]_vars

\* A sale that had passed validateSale was stopped by the re-check inside its
\* transaction after a concurrent reading had emptied the tank.
C28_Witness ==
    \E p, q \in Procs :
        /\ pc[p] = "done" /\ loc[p].kind = "sale" /\ loc[p].status = 500
        /\ Succeeded(q) /\ loc[q].kind = "reading" /\ loc[q].wroteTank
        /\ tanks[1].currentLevel = 0

C30_NoLostDeduction ==
    \A p, q \in Procs :
        LET committed(r) ==
                /\ Succeeded(r)
                /\ \/ loc[r].kind = "sale"
                   \/ /\ loc[r].kind = "reading"
                      /\ loc[r].wroteTank
                      /\ loc[r].prevFuelSold = 0 - 1
            sold(r) == IF loc[r].kind = "sale"
                       THEN sales[Len(sales)].litres ELSE loc[r].fuelSold
        IN (p # q /\ requests = 2 /\ committed(p) /\ committed(q))
           => tanks[1].currentLevel = 2 - (sold(p) + sold(q))

====
